---- MODULE Spec2Model ----
(***************************************************************************)
(* Model of the hopping window counter of package hops (counter.go).       *)
(*                                                                         *)
(* Time is an integer number of clock ticks since the zero time.  A        *)
(* time.Duration is a number of ticks as well.  Every goroutine that uses   *)
(* the counter is a process p; pc[p] is the statement of counter.go it     *)
(* executes next.  One action is one statement (or one group of statements *)
(* that touch nothing another goroutine can see in between).               *)
(***************************************************************************)
EXTENDS Integers, Sequences, FiniteSets, TLC

\* ---------------------------------------------------------------- bounds
\* Number of goroutines.
NumProcs == 3
\* Number of goroutines calling Observe() and Value() in Spec, SeqSpec, AnySpec
\* and LiveSpec.
Callers == 2
\* NewCounter is called at a tick in 0..MaxStart.
MaxStart == 1
\* Spec (every interleaving of the goroutines): the clock stops at tick
\* MaxTime, at most MaxCalls calls of Observe() and Value() are made, and
\* NewCounter's arguments are windowSize in 1..MaxWindowUnits and timeUnit
\* in 1..MaxUnit (ticks).
MaxTime == 3
MaxCalls == 3
MaxWindowUnits == 2
MaxUnit == 2
\* LiveSpec (every interleaving, under fairness): the same four bounds.
LiveMaxTime == 2
LiveMaxCalls == 3
LiveMaxWindowUnits == 2
LiveMaxUnit == 1
\* TriSpec (every interleaving, every goroutine calling): the same four
\* bounds.
TriMaxTime == 2
TriMaxCalls == 3
TriMaxWindowUnits == 2
TriMaxUnit == 1
\* FnSpec (functions run on their own): slices have up to FnMaxLen elements,
\* the elements leftShiftInPlace moves are in 0..FnMaxVal.
FnMaxLen == 3
FnMaxVal == 2
\* SeqSpec (calls that do not overlap): the same four bounds.
SeqMaxTime == 7
SeqMaxCalls == 3
SeqMaxWindowUnits == 3
SeqMaxUnit == 2

\* The value of x as a uint32: x modulo 2^32, computed on 16-bit halves
\* (low half plus 2^16 times the high half modulo 2^16).
Uint32(x) == (x % 65536) + 65536 * ((x \div 65536) % 65536)

Procs == 1..NumProcs

\* A uint32 too large to count up to, as its two 16-bit halves: the value is
\* hi * 2^16 + lo.
U32(hi, lo) == [hi |-> hi, lo |-> lo]

VARIABLES
    clock,          \* the wall clock read by time.Now()
    calls,          \* calls of Observe() and Value() made so far
    windowUnits,    \* NewCounter's windowSize argument
    unitArg,       \* NewCounter's timeUnit argument
    crtCount,       \* Counter.crtCount
    prevCounts,     \* Counter.prevCounts
    windowStart,    \* Counter.windowStart
    WindowSize,     \* Counter.WindowSize
    Unit,           \* Counter.Unit
    mu,             \* Counter.mu: the goroutines holding a read hold, the writer
                    \* (at most one) that holds or awaits the lock, whether it holds it
    panicked,       \* "none", or the runtime panic that ended the program
    pc,             \* pc[p]: the statement process p executes next
    op,             \* op[p]: the public operation p is in
    now,            \* refreshWindow's local now
    isCurrentUnitInWindow, \* refreshWindow's local
    t,              \* moveWindow's parameter t (after line 97)
    moveDistance,   \* moveWindow's local moveDistance
    sum,            \* Value's local sum
    ret,            \* the value returned by Value()
    readAt,         \* history: the clock tick p's call read from time.Now()
    obsAt,          \* history: the clock ticks read by the Observe() calls that incremented
    removed,        \* history: counts removed from the buckets by window advances
    lastInc,        \* history: clock tick of the latest increment (-1: none yet)
    overlapped,     \* history: two calls have been in progress at the same time
    batch,          \* history: the calls made since the counter was last at rest
    advFrom,        \* history: the buckets and the window end when the advance in progress began
    movedT,         \* history: the times t for which moveWindow shifted the window, in order
    lastRefresh,    \* history: the clock tick read by the call whose refreshWindow returned last (-1: none yet)
    fnRun,          \* the function run on its own, with its arguments and result
    vAfter          \* history: vAfter[p]: p's Value() began with no Observe() in
                    \* progress, and none has begun since

counterVars == <<crtCount, prevCounts, windowStart, WindowSize, Unit>>
localVars == <<pc, op, now, isCurrentUnitInWindow, t, moveDistance, sum, ret, readAt>>
histVars == <<obsAt, removed, lastInc, overlapped, batch, vAfter, advFrom, movedT, lastRefresh, fnRun>>
vars == <<clock, calls, windowUnits, unitArg, counterVars, mu, panicked, localVars, histVars>>

\* ------------------------------------------------------- pure functions

Abs(x) == IF x < 0 THEN -x ELSE x

\* Go's integer division: truncates toward zero.  b # 0.
GoDiv(a, b) ==
    IF (a >= 0) = (b > 0) THEN Abs(a) \div Abs(b) ELSE -(Abs(a) \div Abs(b))

\* time.Time.Truncate: round x down to a multiple of d since the zero time;
\* x is returned unchanged when d <= 0.
Truncate(x, d) == IF d <= 0 THEN x ELSE x - (x % d)

RECURSIVE SumSeq(_)
SumSeq(s) == IF s = <<>> THEN 0 ELSE Head(s) + SumSeq(Tail(s))

\* Mutant: the first loop copies from one slot too near (s[i] = s[i+p-1]).
RECURSIVE ShiftLoop_OffByOne(_, _, _)
ShiftLoop_OffByOne(s, p, i) ==
    IF i < Len(s) - p
    THEN ShiftLoop_OffByOne([s EXCEPT ![i + 1] = s[i + p]], p, i + 1)
    ELSE s

\* The first loop of leftShiftInPlace (i is the 0-based loop index).
RECURSIVE ShiftLoop(_, _, _)
ShiftLoop(s, p, i) ==
    IF i < Len(s) - p
    THEN ShiftLoop([s EXCEPT ![i + 1] = s[i + p + 1]], p, i + 1)
    ELSE s

\* Mutant: the second loop stops one slot early (i < len(s) - 1).
RECURSIVE ZeroLoop_OffByOne(_, _)
ZeroLoop_OffByOne(s, i) ==
    IF i + 1 < Len(s)
    THEN ZeroLoop_OffByOne([s EXCEPT ![i + 1] = 0], i + 1)
    ELSE s

\* The second loop of leftShiftInPlace.
RECURSIVE ZeroLoop(_, _)
ZeroLoop(s, i) ==
    IF i < Len(s) THEN ZeroLoop([s EXCEPT ![i + 1] = 0], i + 1) ELSE s

\* Mutant: the vacated slots are not zeroed.
leftShiftInPlace_NoZero(s, p) == IF p <= 0 THEN s ELSE ShiftLoop(s, p, 0)

\* Mutant: the slice is resliced (s = s[p:]) instead of shifted in place.
leftShiftInPlace_Reslice(s, p) ==
    IF p <= 0 THEN s
    ELSE IF p >= Len(s) THEN <<>> ELSE SubSeq(s, p + 1, Len(s))

leftShiftInPlace(s, p) ==
    IF p <= 0
    THEN s
    ELSE LET start == IF Len(s) - p < 0 THEN 0 ELSE Len(s) - p
         IN ZeroLoop(ShiftLoop(s, p, 0), start)

\* Mutant: the window ends on the unit before the current one (line 46
\* without Add(timeUnit)).
NewCounter_EndsBefore(windowSize, timeUnit, clk) ==
    IF windowSize - 1 < 0
    THEN [panic |-> "makeslice", crtCount |-> 0, prevCounts |-> <<>>,
          windowStart |-> 0, WindowSize |-> 0, Unit |-> 0]
    ELSE [panic |-> "none", crtCount |-> 0,
          prevCounts |-> [i \in 1..(windowSize - 1) |-> 0],
          windowStart |-> Truncate(clk, timeUnit) - windowSize * timeUnit,
          WindowSize |-> windowSize * timeUnit,
          Unit |-> timeUnit]

\* NewCounter called at clock tick clk.  make() panics on a negative length.
NewCounter(windowSize, timeUnit, clk) ==
    LET ws0 == Truncate(clk, timeUnit) + timeUnit
        ws1 == ws0 + ((-1) * windowSize * timeUnit)
    IN IF windowSize - 1 < 0
       THEN [panic |-> "makeslice", crtCount |-> 0, prevCounts |-> <<>>,
             windowStart |-> 0, WindowSize |-> 0, Unit |-> 0]
       ELSE [panic |-> "none", crtCount |-> 0,
             prevCounts |-> [i \in 1..(windowSize - 1) |-> 0],
             windowStart |-> ws1,
             WindowSize |-> windowSize * timeUnit,
             Unit |-> timeUnit]

\* ----------------------------------------------------------------- Init

\* No window advance is in progress.
NoAdvance == [on |-> FALSE, h |-> <<>>, v |-> 0, e |-> 0]

\* No batch of same-unit calls is being followed.
NoBatch == [ok |-> FALSE, unit |-> 0, base |-> 0, n |-> 0, conc |-> FALSE]

\* No pure function is under test.
NoRun ==
    [fn |-> "none", s |-> <<>>, p |-> 0, crt |-> U32(0, 0), prev |-> <<>>,
     intBits |-> 64, done |-> FALSE, outS |-> <<>>, touched |-> {},
     outV |-> [neg |-> FALSE, hi |-> 0, lo |-> 0]]

\* The state after NewCounter(windowSize, timeUnit) with the arguments drawn
\* from the given sets, and a pure function to test drawn from runs.
ConstructedWith(sizes, units, runs) ==
    \E windowSize \in sizes, unit \in units, clk \in 0..MaxStart, run \in runs :
        LET c == NewCounter(windowSize, unit, clk)
        IN /\ clock = clk
           /\ calls = 0
           /\ windowUnits = windowSize
           /\ unitArg = unit
           /\ crtCount = c.crtCount
           /\ prevCounts = c.prevCounts
           /\ windowStart = c.windowStart
           /\ WindowSize = c.WindowSize
           /\ Unit = c.Unit
           /\ panicked = c.panic
           /\ mu = [readers |-> {}, writer |-> {}, held |-> FALSE]
           /\ pc = [p \in Procs |-> IF c.panic = "none" THEN "idle" ELSE "crashed"]
           /\ op = [p \in Procs |-> "none"]
           /\ now = [p \in Procs |-> 0]
           /\ isCurrentUnitInWindow = [p \in Procs |-> FALSE]
           /\ t = [p \in Procs |-> 0]
           /\ moveDistance = [p \in Procs |-> 0]
           /\ sum = [p \in Procs |-> 0]
           /\ ret = [p \in Procs |-> 0]
           /\ readAt = [p \in Procs |-> 0]
           /\ obsAt = <<>>
           /\ removed = 0
           /\ lastInc = -1
           /\ overlapped = FALSE
           /\ batch = NoBatch
           /\ vAfter = [p \in Procs |-> FALSE]
           /\ advFrom = NoAdvance
           /\ movedT = <<>>
           /\ lastRefresh = -1
           /\ fnRun = run

Constructed(sizes, units) == ConstructedWith(sizes, units, {NoRun})

\* Valid construction: windowSize >= 1 and timeUnit > 0.
Init == Constructed(1..MaxWindowUnits, 1..MaxUnit)

\* -------------------------------------------------------------- helpers

InFlight(p) == pc[p] # "idle"
\* p is in an Observe() call that has not yet returned.
ObserveInFlight(p) == op[p] = "Observe" /\ pc[p] \notin {"idle", "ob_ret"}

\* The count within the window that ends on the unit starting at tick u:
\* the buckets of the units later than u - WindowSize.  prevCounts[i] is the
\* bucket of the unit starting at windowStart + (i-1)*Unit, crtCount the
\* bucket of the unit after the last of them.
CountInWindow(u) ==
    LET bucketStart(i) == windowStart + (i - 1) * Unit
        kept(i) == bucketStart(i) > u - WindowSize
    IN SumSeq([i \in 1..Len(prevCounts) |-> IF kept(i) THEN prevCounts[i] ELSE 0])
         + (IF kept(Len(prevCounts) + 1) THEN crtCount ELSE 0)

\* The batch after process p begins a call of the given operation: a call
\* that begins while the counter is at rest opens a batch; a call that reads
\* another time unit than the batch's ends it.
BatchOnCall(p, operation) ==
    LET u == Truncate(clock, Unit)
    IN IF \A q \in Procs : pc[q] = "idle"
       THEN [ok |-> TRUE, unit |-> u, base |-> CountInWindow(u), n |-> 0,
             conc |-> FALSE]
       ELSE IF batch.ok /\ u = batch.unit
       THEN [batch EXCEPT !.conc = @ \/ (operation = "Observe"
                                          /\ \E q \in Procs : ObserveInFlight(q))]
       ELSE NoBatch
AfterRefresh(p) == IF op[p] = "Observe" THEN "ob_add" ELSE "v_load"

\* ----------------------------------------------------------- the clock

Tick(maxTime) ==
    /\ panicked = "none"
    /\ clock < maxTime
    /\ clock' = clock + 1
    /\ UNCHANGED <<calls, windowUnits, unitArg, counterVars, mu, panicked, localVars, histVars>>

\* ------------------------------------------------------ Observe / Value

\* A goroutine calls Observe() or Value(): the call enters refreshWindow and
\* reads the clock (line 81).  At most maxCalls calls are made; with
\* sequential, a call starts only when no other call is in progress.
Call(p, operation, maxCalls, sequential) ==
    /\ pc[p] = "idle"
    /\ calls < maxCalls
    /\ sequential => \A q \in Procs \ {p} : pc[q] = "idle"
    /\ calls' = calls + 1
    /\ op' = [op EXCEPT ![p] = operation]
    /\ now' = [now EXCEPT ![p] = Truncate(clock, Unit)]
    /\ readAt' = [readAt EXCEPT ![p] = clock]
    /\ pc' = [pc EXCEPT ![p] = "rw_rlock"]
    /\ overlapped' = (overlapped \/ \E q \in Procs \ {p} : InFlight(q))
    /\ batch' = BatchOnCall(p, operation)
    /\ vAfter' = IF operation = "Observe"
                 THEN [q \in Procs |-> FALSE]
                 ELSE [vAfter EXCEPT ![p] = \A q \in Procs : ~ObserveInFlight(q)]
    /\ UNCHANGED <<clock, windowUnits, unitArg, counterVars, mu, panicked,
                   isCurrentUnitInWindow, t, moveDistance, sum, ret,
                   obsAt, removed, lastInc, advFrom, movedT, lastRefresh, fnRun>>

ObserveCall(p, maxCalls, sequential) == Call(p, "Observe", maxCalls, sequential)

ValueCall(p, maxCalls, sequential) == Call(p, "Value", maxCalls, sequential)

\* refreshWindow, line 83: c.mu.RLock().  A reader waits while a writer holds
\* or awaits the lock.
RefreshRLock(p) ==
    /\ pc[p] = "rw_rlock"
    /\ mu.writer = {}
    /\ mu' = [mu EXCEPT !.readers = @ \cup {p}]
    /\ pc' = [pc EXCEPT ![p] = "rw_check"]
    /\ UNCHANGED <<clock, calls, windowUnits, unitArg, counterVars, panicked, op, now,
                   isCurrentUnitInWindow, t, moveDistance, sum, ret, readAt,
                   histVars>>

\* Mutant: the window is taken to cover one unit more than it does.
RefreshCheck_OffByOne(p) ==
    /\ pc[p] = "rw_check"
    /\ isCurrentUnitInWindow' =
           [isCurrentUnitInWindow EXCEPT ![p] = (now[p] - windowStart <= WindowSize)]
    /\ pc' = [pc EXCEPT ![p] = "rw_runlock"]
    /\ UNCHANGED <<clock, calls, windowUnits, unitArg, counterVars, mu, panicked, op, now,
                   t, moveDistance, sum, ret, readAt, histVars>>

\* refreshWindow, line 84.
RefreshCheck(p) ==
    /\ pc[p] = "rw_check"
    /\ isCurrentUnitInWindow' =
           [isCurrentUnitInWindow EXCEPT ![p] = (now[p] - windowStart < WindowSize)]
    /\ pc' = [pc EXCEPT ![p] = "rw_runlock"]
    /\ UNCHANGED <<clock, calls, windowUnits, unitArg, counterVars, mu, panicked, op, now,
                   t, moveDistance, sum, ret, readAt, histVars>>

\* Mutant: moveWindow is entered with the read hold still held.
RefreshRUnlock_Hold(p) ==
    /\ pc[p] = "rw_runlock"
    /\ mu' = IF isCurrentUnitInWindow[p]
             THEN [mu EXCEPT !.readers = @ \ {p}]
             ELSE mu
    /\ IF isCurrentUnitInWindow[p]
       THEN /\ pc' = [pc EXCEPT ![p] = AfterRefresh(p)]
            /\ t' = t
       ELSE /\ pc' = [pc EXCEPT ![p] = "mw_lock"]
            /\ t' = [t EXCEPT ![p] = Truncate(now[p], Unit) + Unit]
    /\ UNCHANGED <<clock, calls, windowUnits, unitArg, counterVars, panicked, op, now,
                   isCurrentUnitInWindow, moveDistance, sum, ret, readAt,
                   histVars>>

\* refreshWindow, lines 85-89: c.mu.RUnlock(), then either return or enter
\* moveWindow(now), whose line 97 computes t.
RefreshRUnlock(p) ==
    /\ pc[p] = "rw_runlock"
    /\ mu' = [mu EXCEPT !.readers = @ \ {p}]
    /\ IF isCurrentUnitInWindow[p]
       THEN /\ pc' = [pc EXCEPT ![p] = AfterRefresh(p)]
            /\ t' = t
            /\ lastRefresh' = readAt[p]
       ELSE /\ pc' = [pc EXCEPT ![p] = "mw_lock"]
            /\ t' = [t EXCEPT ![p] = Truncate(now[p], Unit) + Unit]
            /\ UNCHANGED lastRefresh
    /\ UNCHANGED <<clock, calls, windowUnits, unitArg, counterVars, panicked, op, now,
                   isCurrentUnitInWindow, moveDistance, sum, ret, readAt,
                   obsAt, removed, lastInc, overlapped, batch, vAfter, advFrom,
                   movedT, fnRun>>

\* moveWindow, line 99: c.mu.Lock().  First the writer excludes the other
\* writers and announces itself to the readers ...
MoveLock(p) ==
    /\ pc[p] = "mw_lock"
    /\ mu.writer = {}
    /\ mu' = [mu EXCEPT !.writer = {p}]
    /\ pc' = [pc EXCEPT ![p] = "mw_wait"]
    /\ UNCHANGED <<clock, calls, windowUnits, unitArg, counterVars, panicked, op, now,
                   isCurrentUnitInWindow, t, moveDistance, sum, ret, readAt,
                   histVars>>

\* Mutant: the writer does not wait for the readers.
MoveLockAcquire_NoWait(p) ==
    /\ pc[p] = "mw_wait"
    /\ p \in mu.writer
    /\ mu' = [mu EXCEPT !.held = TRUE]
    /\ pc' = [pc EXCEPT ![p] = "mw_check"]
    /\ UNCHANGED <<clock, calls, windowUnits, unitArg, counterVars, panicked, op, now,
                   isCurrentUnitInWindow, t, moveDistance, sum, ret, readAt,
                   histVars>>

\* ... then it waits for the active readers to leave.
MoveLockAcquire(p) ==
    /\ pc[p] = "mw_wait"
    /\ p \in mu.writer
    /\ mu.readers = {}
    /\ mu' = [mu EXCEPT !.held = TRUE]
    /\ pc' = [pc EXCEPT ![p] = "mw_check"]
    /\ UNCHANGED <<clock, calls, windowUnits, unitArg, counterVars, panicked, op, now,
                   isCurrentUnitInWindow, t, moveDistance, sum, ret, readAt,
                   histVars>>

\* Mutant: the window is shifted without the re-check under the exclusive
\* hold.
MoveCheck_NoRecheck(p) ==
    /\ pc[p] = "mw_check"
    /\ pc' = [pc EXCEPT ![p] = "mw_shift"]
    /\ UNCHANGED <<clock, calls, windowUnits, unitArg, counterVars, mu, panicked, op, now,
                   isCurrentUnitInWindow, t, moveDistance, sum, ret, readAt,
                   histVars>>

\* Mutant: the re-check lets a window through that ends exactly at t.
MoveCheck_Strict(p) ==
    /\ pc[p] = "mw_check"
    /\ pc' = [pc EXCEPT ![p] = IF t[p] - windowStart < WindowSize
                               THEN "mw_unlock" ELSE "mw_shift"]
    /\ UNCHANGED <<clock, calls, windowUnits, unitArg, counterVars, mu, panicked, op, now,
                   isCurrentUnitInWindow, t, moveDistance, sum, ret, readAt,
                   histVars>>

\* moveWindow, lines 103-105.
MoveCheck(p) ==
    /\ pc[p] = "mw_check"
    /\ pc' = [pc EXCEPT ![p] = IF t[p] - windowStart <= WindowSize
                               THEN "mw_unlock" ELSE "mw_shift"]
    /\ UNCHANGED <<clock, calls, windowUnits, unitArg, counterVars, mu, panicked, op, now,
                   isCurrentUnitInWindow, t, moveDistance, sum, ret, readAt,
                   histVars>>

\* The counts leftShiftInPlace(s, p) drops from s.
Dropped(s, p) ==
    IF p <= 0 THEN 0
    ELSE SumSeq(SubSeq(s, 1, IF p < Len(s) THEN p ELSE Len(s)))

\* moveWindow, lines 109-110.  The division panics when c.Unit is 0.
MoveShift(p) ==
    /\ pc[p] = "mw_shift"
    /\ IF Unit = 0
       THEN /\ panicked' = "divide"
            /\ pc' = [q \in Procs |-> "crashed"]
            /\ UNCHANGED <<prevCounts, moveDistance, removed, advFrom, movedT>>
       ELSE LET d == GoDiv((t[p] - windowStart) - WindowSize, Unit)
            IN /\ moveDistance' = [moveDistance EXCEPT ![p] = d]
               /\ prevCounts' = leftShiftInPlace(prevCounts, d)
               /\ removed' = removed + Dropped(prevCounts, d)
               /\ advFrom' = [on |-> TRUE, h |-> prevCounts, v |-> crtCount,
                               e |-> windowStart + WindowSize - Unit]
               /\ movedT' = Append(movedT, t[p])
               /\ pc' = [pc EXCEPT ![p] = "mw_current"]
               /\ UNCHANGED panicked
    /\ UNCHANGED <<clock, calls, windowUnits, unitArg, crtCount, windowStart, WindowSize, Unit,
                   mu, op, now, isCurrentUnitInWindow, t, sum, ret, readAt,
                   obsAt, lastInc, overlapped, batch, vAfter, lastRefresh, fnRun>>

\* Mutant: crtCount is copied into prevCounts but not reset.
MoveCurrent_NoReset(p) ==
    /\ pc[p] = "mw_current"
    /\ LET crtCountNewPos == Len(prevCounts) - moveDistance[p]
       IN IF crtCountNewPos >= 0
          THEN IF crtCountNewPos >= Len(prevCounts)
               THEN /\ panicked' = "index"
                    /\ pc' = [q \in Procs |-> "crashed"]
                    /\ UNCHANGED <<prevCounts, crtCount, removed>>
               ELSE /\ prevCounts' =
                           [prevCounts EXCEPT ![crtCountNewPos + 1] = crtCount]
                    /\ UNCHANGED <<crtCount, removed>>
                    /\ pc' = [pc EXCEPT ![p] = "mw_start"]
                    /\ UNCHANGED panicked
          ELSE /\ crtCount' = 0
               /\ removed' = removed + crtCount
               /\ pc' = [pc EXCEPT ![p] = "mw_start"]
               /\ UNCHANGED <<prevCounts, panicked>>
    /\ UNCHANGED <<clock, calls, windowUnits, unitArg, windowStart, WindowSize, Unit, mu, op,
                   now, isCurrentUnitInWindow, t, moveDistance, sum, ret,
                   readAt, obsAt, lastInc, overlapped, batch, vAfter, advFrom, movedT, lastRefresh, fnRun>>

\* Mutant: a crtCount that falls outside the window is not reset.
MoveCurrent_NoDrop(p) ==
    /\ pc[p] = "mw_current"
    /\ LET crtCountNewPos == Len(prevCounts) - moveDistance[p]
       IN IF crtCountNewPos >= 0
          THEN IF crtCountNewPos >= Len(prevCounts)
               THEN /\ panicked' = "index"
                    /\ pc' = [q \in Procs |-> "crashed"]
                    /\ UNCHANGED <<prevCounts, crtCount, removed>>
               ELSE /\ prevCounts' =
                           [prevCounts EXCEPT ![crtCountNewPos + 1] = crtCount]
                    /\ crtCount' = 0
                    /\ UNCHANGED removed
                    /\ pc' = [pc EXCEPT ![p] = "mw_start"]
                    /\ UNCHANGED panicked
          ELSE /\ UNCHANGED <<crtCount, removed>>
               /\ pc' = [pc EXCEPT ![p] = "mw_start"]
               /\ UNCHANGED <<prevCounts, panicked>>
    /\ UNCHANGED <<clock, calls, windowUnits, unitArg, windowStart, WindowSize, Unit, mu, op,
                   now, isCurrentUnitInWindow, t, moveDistance, sum, ret,
                   readAt, obsAt, lastInc, overlapped, batch, vAfter, advFrom, movedT, lastRefresh, fnRun>>

\* moveWindow, lines 113-119.  Indexing prevCounts past its end panics.
MoveCurrent(p) ==
    /\ pc[p] = "mw_current"
    /\ LET crtCountNewPos == Len(prevCounts) - moveDistance[p]
       IN IF crtCountNewPos >= 0
          THEN IF crtCountNewPos >= Len(prevCounts)
               THEN /\ panicked' = "index"
                    /\ pc' = [q \in Procs |-> "crashed"]
                    /\ UNCHANGED <<prevCounts, crtCount, removed>>
               ELSE /\ prevCounts' =
                           [prevCounts EXCEPT ![crtCountNewPos + 1] = crtCount]
                    /\ crtCount' = 0
                    /\ UNCHANGED removed
                    /\ pc' = [pc EXCEPT ![p] = "mw_start"]
                    /\ UNCHANGED panicked
          ELSE /\ crtCount' = 0
               /\ removed' = removed + crtCount
               /\ pc' = [pc EXCEPT ![p] = "mw_start"]
               /\ UNCHANGED <<prevCounts, panicked>>
    /\ UNCHANGED <<clock, calls, windowUnits, unitArg, windowStart, WindowSize, Unit, mu, op,
                   now, isCurrentUnitInWindow, t, moveDistance, sum, ret,
                   readAt, obsAt, lastInc, overlapped, batch, vAfter, advFrom, movedT, lastRefresh, fnRun>>

\* Mutant: the window start advances by one unit whatever the distance.
MoveStart_OneUnit(p) ==
    /\ pc[p] = "mw_start"
    /\ windowStart' = windowStart + Unit
    /\ pc' = [pc EXCEPT ![p] = "mw_unlock"]
    /\ UNCHANGED <<clock, calls, windowUnits, unitArg, crtCount, prevCounts, WindowSize, Unit,
                   mu, panicked, op, now, isCurrentUnitInWindow, t,
                   moveDistance, sum, ret, readAt, histVars>>

\* Mutant: the window start is not updated.
MoveStart_Stale(p) ==
    /\ pc[p] = "mw_start"
    /\ pc' = [pc EXCEPT ![p] = "mw_unlock"]
    /\ UNCHANGED <<clock, calls, windowUnits, unitArg, counterVars,
                   mu, panicked, op, now, isCurrentUnitInWindow, t,
                   moveDistance, sum, ret, readAt, histVars>>

\* moveWindow, line 121.
MoveStart(p) ==
    /\ pc[p] = "mw_start"
    /\ windowStart' = windowStart + moveDistance[p] * Unit
    /\ pc' = [pc EXCEPT ![p] = "mw_unlock"]
    /\ UNCHANGED <<clock, calls, windowUnits, unitArg, crtCount, prevCounts, WindowSize, Unit,
                   mu, panicked, op, now, isCurrentUnitInWindow, t,
                   moveDistance, sum, ret, readAt, histVars>>

\* moveWindow, line 100: the deferred c.mu.Unlock(), and the return to
\* Observe or Value.
MoveUnlock(p) ==
    /\ pc[p] = "mw_unlock"
    /\ mu' = [mu EXCEPT !.writer = {}, !.held = FALSE]
    /\ pc' = [pc EXCEPT ![p] = AfterRefresh(p)]
    /\ advFrom' = NoAdvance
    /\ lastRefresh' = readAt[p]
    /\ UNCHANGED <<clock, calls, windowUnits, unitArg, counterVars, panicked, op, now,
                   isCurrentUnitInWindow, t, moveDistance, sum, ret, readAt,
                   obsAt, removed, lastInc, overlapped, batch, vAfter, movedT, fnRun>>

\* Observe, line 61: atomic.AddUint32(&c.crtCount, 1), and the return.
ObserveAdd(p) ==
    /\ pc[p] = "ob_add"
    /\ crtCount' = Uint32(crtCount + 1)
    /\ obsAt' = Append(obsAt, readAt[p])
    /\ lastInc' = clock
    /\ batch' = IF batch.ok THEN [batch EXCEPT !.n = @ + 1] ELSE batch
    /\ pc' = [pc EXCEPT ![p] = "ob_ret"]
    /\ UNCHANGED <<clock, calls, windowUnits, unitArg, prevCounts, windowStart, WindowSize,
                   Unit, mu, panicked, op, now, isCurrentUnitInWindow, t,
                   moveDistance, sum, ret, readAt, removed, overlapped,
                   vAfter, advFrom, movedT, lastRefresh, fnRun>>

\* Mutant: Value takes crtCount with a swap, which resets it.
ValueLoad_Swap(p) ==
    /\ pc[p] = "v_load"
    /\ sum' = [sum EXCEPT ![p] = crtCount]
    /\ crtCount' = 0
    /\ pc' = [pc EXCEPT ![p] = "v_rlock"]
    /\ UNCHANGED <<clock, calls, windowUnits, unitArg, prevCounts, windowStart,
                   WindowSize, Unit, mu, panicked, op, now,
                   isCurrentUnitInWindow, t, moveDistance, ret, readAt,
                   histVars>>

\* Value, line 68: sum := atomic.LoadUint32(&c.crtCount).
ValueLoad(p) ==
    /\ pc[p] = "v_load"
    /\ sum' = [sum EXCEPT ![p] = crtCount]
    /\ pc' = [pc EXCEPT ![p] = "v_rlock"]
    /\ UNCHANGED <<clock, calls, windowUnits, unitArg, counterVars, mu, panicked, op, now,
                   isCurrentUnitInWindow, t, moveDistance, ret, readAt,
                   histVars>>

\* Value, line 69: c.mu.RLock().
ValueRLock(p) ==
    /\ pc[p] = "v_rlock"
    /\ mu.writer = {}
    /\ mu' = [mu EXCEPT !.readers = @ \cup {p}]
    /\ pc' = [pc EXCEPT ![p] = "v_sum"]
    /\ UNCHANGED <<clock, calls, windowUnits, unitArg, counterVars, panicked, op, now,
                   isCurrentUnitInWindow, t, moveDistance, sum, ret, readAt,
                   histVars>>

\* The loop of Value: sum += c.prevCounts[i], in uint32 (i is 0-based).
RECURSIVE SumLoop(_, _, _)
SumLoop(acc, s, i) ==
    IF i < Len(s) THEN SumLoop(Uint32(acc + s[i + 1]), s, i + 1) ELSE acc

\* Value, lines 70-72.
ValueSum(p) ==
    /\ pc[p] = "v_sum"
    /\ sum' = [sum EXCEPT ![p] = SumLoop(sum[p], prevCounts, 0)]
    /\ pc' = [pc EXCEPT ![p] = "v_runlock"]
    /\ UNCHANGED <<clock, calls, windowUnits, unitArg, counterVars, mu, panicked, op, now,
                   isCurrentUnitInWindow, t, moveDistance, ret, readAt,
                   histVars>>

\* Value, lines 73-75: c.mu.RUnlock() and return int(sum), which is sum
\* itself where int is 64 bits wide.
ValueRUnlock(p) ==
    /\ pc[p] = "v_runlock"
    /\ mu' = [mu EXCEPT !.readers = @ \ {p}]
    /\ ret' = [ret EXCEPT ![p] = sum[p]]
    /\ pc' = [pc EXCEPT ![p] = "v_ret"]
    /\ UNCHANGED <<clock, calls, windowUnits, unitArg, counterVars, panicked, op, now,
                   isCurrentUnitInWindow, t, moveDistance, sum, readAt,
                   histVars>>

\* The caller has the result of its call and goes on.
Return(p) ==
    /\ pc[p] \in {"ob_ret", "v_ret"}
    /\ pc' = [pc EXCEPT ![p] = "idle"]
    /\ op' = [op EXCEPT ![p] = "none"]
    /\ now' = [now EXCEPT ![p] = 0]
    /\ isCurrentUnitInWindow' = [isCurrentUnitInWindow EXCEPT ![p] = FALSE]
    /\ t' = [t EXCEPT ![p] = 0]
    /\ moveDistance' = [moveDistance EXCEPT ![p] = 0]
    /\ sum' = [sum EXCEPT ![p] = 0]
    /\ ret' = [ret EXCEPT ![p] = 0]
    /\ readAt' = [readAt EXCEPT ![p] = 0]
    /\ vAfter' = [vAfter EXCEPT ![p] = FALSE]
    /\ UNCHANGED <<clock, calls, windowUnits, unitArg, counterVars, mu,
                   panicked, obsAt, removed, lastInc, overlapped, batch, advFrom, movedT, lastRefresh, fnRun>>

\* ----------------------------------------------------------------- Next

\* The next statement of the call p is in.
Run(p) ==
    \/ RefreshRLock(p)
    \/ RefreshCheck(p)
    \/ RefreshRUnlock(p)
    \/ MoveLock(p)
    \/ MoveLockAcquire(p)
    \/ MoveCheck(p)
    \/ MoveShift(p)
    \/ MoveCurrent(p)
    \/ MoveStart(p)
    \/ MoveUnlock(p)
    \/ ObserveAdd(p)
    \/ ValueLoad(p)
    \/ ValueRLock(p)
    \/ ValueSum(p)
    \/ ValueRUnlock(p)
    \/ Return(p)

Step(p, maxCalls, sequential) ==
    \/ ObserveCall(p, maxCalls, sequential)
    \/ ValueCall(p, maxCalls, sequential)
    \/ Run(p)

\* Every interleaving of the goroutines' steps and the clock's ticks.  A
\* runtime panic ends the program: no goroutine takes another step.
Next == Tick(MaxTime) \/ \E p \in 1..Callers : Step(p, MaxCalls, FALSE)

Spec == Init /\ [][Next]_vars

\* Calls do not overlap: at most one call is in progress at any time.
SeqInit == Constructed(1..SeqMaxWindowUnits, 1..SeqMaxUnit)

SeqNext == Tick(SeqMaxTime) \/ \E p \in 1..Callers : Step(p, SeqMaxCalls, TRUE)

SeqSpec == SeqInit /\ [][SeqNext]_vars

\* Any construction, misuse included: windowSize and timeUnit may be 0 or
\* negative.
AnyInit == Constructed((-1)..MaxWindowUnits, (-1)..MaxUnit)

AnySpec == AnyInit /\ [][Next]_vars

\* Every interleaving with every goroutine calling.
TriInit == Constructed(1..TriMaxWindowUnits, 1..TriMaxUnit)

TriNext == Tick(TriMaxTime) \/ \E p \in Procs : Step(p, TriMaxCalls, FALSE)

TriSpec == TriInit /\ [][TriNext]_vars

\* ------------------------------------------------- functions on their own

\* uint32 addition on 16-bit halves: the carry out of the high half is lost.
AddU32(a, b) ==
    LET lo == a.lo + b.lo
        hi == a.hi + b.hi + (lo \div 65536)
    IN U32(hi % 65536, lo % 65536)

\* The loop of Value (lines 70-72) on such values.
RECURSIVE SumLoopU32(_, _, _)
SumLoopU32(acc, s, i) ==
    IF i < Len(s) THEN SumLoopU32(AddU32(acc, s[i + 1]), s, i + 1) ELSE acc

\* Value, lines 68-75, for the given crtCount and prevCounts: the uint32 sum
\* and its conversion int(sum), which keeps the bits; where int is 32 bits
\* wide a sum of 2^31 or more is a negative int.
ValueU32(crt, prev, intBits) ==
    LET total == SumLoopU32(crt, prev, 0)
    IN [neg |-> (intBits = 32 /\ total.hi >= 32768),
        hi |-> total.hi, lo |-> total.lo]

\* The 0-based indices leftShiftInPlace(s, p) reads or writes for a slice of
\* n elements: s[i] and s[i+p] in the first loop, s[i] in the second.
Touched(n, p) ==
    IF p <= 0 THEN {}
    ELSE LET start == IF n - p < 0 THEN 0 ELSE n - p
         IN {i : i \in 0..(n - p - 1)} \cup {i + p : i \in 0..(n - p - 1)}
                \cup start..(n - 1)

\* Bucket values for Value: 0, 1, 2^31 and 2^32 - 1.
BucketValues == {U32(0, 0), U32(0, 1), U32(32768, 0), U32(65535, 65535)}

RECURSIVE SeqsOf(_, _)
\* The sequences of n elements of S.
SeqsOf(S, n) ==
    IF n = 0 THEN {<<>>}
    ELSE {Append(q, x) : q \in SeqsOf(S, n - 1), x \in S}

SeqsUpTo(S, n) == UNION {SeqsOf(S, k) : k \in 0..n}

\* The runs of Value() on a counter at rest and of leftShiftInPlace.
ValueRuns ==
    {[NoRun EXCEPT !.fn = "Value", !.crt = c, !.prev = h, !.intBits = b] :
        c \in BucketValues, h \in SeqsUpTo(BucketValues, FnMaxLen), b \in {32, 64}}

ShiftRuns ==
    {[NoRun EXCEPT !.fn = "leftShiftInPlace", !.s = q, !.p = d] :
        q \in SeqsUpTo(0..FnMaxVal, FnMaxLen), d \in (-1)..(FnMaxLen + 1)}

FnInit == ConstructedWith({1}, {1}, ValueRuns \cup ShiftRuns)

RunValue ==
    /\ fnRun.fn = "Value"
    /\ ~fnRun.done
    /\ fnRun' = [fnRun EXCEPT !.done = TRUE,
                              !.outV = ValueU32(fnRun.crt, fnRun.prev, fnRun.intBits)]
    /\ UNCHANGED <<clock, calls, windowUnits, unitArg, counterVars, mu, panicked,
                   localVars, obsAt, removed, lastInc, overlapped, batch, vAfter,
                   advFrom, movedT, lastRefresh>>

RunLeftShift ==
    /\ fnRun.fn = "leftShiftInPlace"
    /\ ~fnRun.done
    /\ fnRun' = [fnRun EXCEPT !.done = TRUE,
                              !.outS = leftShiftInPlace(fnRun.s, fnRun.p),
                              !.touched = Touched(Len(fnRun.s), fnRun.p)]
    /\ UNCHANGED <<clock, calls, windowUnits, unitArg, counterVars, mu, panicked,
                   localVars, obsAt, removed, lastInc, overlapped, batch, vAfter,
                   advFrom, movedT, lastRefresh>>

FnNext == RunValue \/ RunLeftShift

FnSpec == FnInit /\ [][FnNext]_vars

\* ------------------------------------------------------ claim vocabulary

\* Number of increments made by Observe() calls so far.
Incs == Len(obsAt)

\* Number of increments by Observe() calls that read a tick in lo..hi.
ObsIn(lo, hi) ==
    Cardinality({i \in DOMAIN obsAt : lo <= obsAt[i] /\ obsAt[i] <= hi})

\* Number of increments by Observe() calls that read a tick of the time unit
\* starting at tick u.
ObsInUnit(u) == ObsIn(u, u + Unit - 1)

Returned(p) == pc[p] \in {"ob_ret", "v_ret"}

\* ------------------------------------------------------------------- C1

\* C1 as stated: in a run without overlapping calls, Value() at time now
\* returns the number of earlier Observe() calls whose time lies in
\* [now - windowDuration, now].
C1_SlidingWholeInterval ==
    \A p \in Procs :
        pc[p] = "v_ret" => ret[p] = ObsIn(readAt[p] - WindowSize, readAt[p])

\* C1 amended: in a run without overlapping calls, Value() at time now
\* returns the number of earlier Observe() calls whose time lies in the
\* windowUnits whole time units that end with the unit containing now, that
\* is in [truncate(now, unit) - (windowUnits - 1) * unit, now].
C1_SlidingWholeUnits ==
    \A p \in Procs :
        pc[p] = "v_ret" =>
            ret[p] = ObsIn(Truncate(readAt[p], Unit) - (windowUnits - 1) * Unit,
                           readAt[p])

\* A Value() that counts some Observe() calls and leaves out an older one
\* that is less than windowDuration old.
C1_Witness ==
    \E p \in Procs :
        /\ pc[p] = "v_ret"
        /\ ret[p] >= 1
        /\ ret[p] < ObsIn(readAt[p] - WindowSize + 1, readAt[p])

\* ------------------------------------------------------------------- C5

\* C5: in a run without overlapping calls, after Observe() or Value()
\* completes at time now, crtCount is the number of Observe() calls made in
\* the unit containing now, and prevCounts[i] (0-based) the number made in
\* the unit (W-1-i) units before it.
C5_BucketMeaning ==
    \A p \in Procs :
        Returned(p) =>
            /\ crtCount = ObsInUnit(now[p])
            /\ \A i \in 1..Len(prevCounts) :
                   prevCounts[i] = ObsInUnit(now[p] - (windowUnits - i) * Unit)

\* A call has completed with events in the current unit and in two older
\* units of the window.
C5_Witness ==
    \E p \in Procs :
        /\ Returned(p)
        /\ Len(prevCounts) >= 2
        /\ crtCount >= 1
        /\ prevCounts[1] >= 1
        /\ prevCounts[2] >= 1

\* ------------------------------------------------------------------- C2

\* C2: when every call since the counter was last at rest read the clock
\* within one time unit, a Value() that began after all the Observe() calls
\* had returned yields the count that was within the window before they
\* began plus the number of those Observe() calls.
C2_NoDoubleCountInUnit ==
    \A p \in Procs :
        (pc[p] = "v_ret" /\ batch.ok /\ vAfter[p]) =>
            ret[p] = batch.base + batch.n

\* Two Observe() calls ran concurrently, and a Value() begun after both
\* returned has its result.
C2_Witness ==
    \E p \in Procs :
        /\ pc[p] = "v_ret"
        /\ batch.ok
        /\ vAfter[p]
        /\ batch.conc
        /\ batch.n >= 2

\* ------------------------------------------------------------------- C3

\* C3: in every reachable state crtCount + sum(prevCounts) equals the
\* number of increments made minus the counts removed by window advances
\* (shifted out of prevCounts, or dropped from crtCount).
C3_Conservation == crtCount + SumSeq(prevCounts) = Incs - removed

\* An advance has removed a count while other counts stay in the buckets and
\* calls have overlapped.
C3_Witness ==
    /\ overlapped
    /\ removed >= 1
    /\ crtCount + SumSeq(prevCounts) >= 1

\* ------------------------------------------------------------------- C4

\* C4: the number Value() returns is at most the number of increments made
\* before it returns.
C4_ValueAtMostIncrements ==
    \A p \in Procs : pc[p] = "v_ret" => ret[p] <= Incs

\* ------------------------------------------------------------------- C6

\* The statements of a call that follow its window advance.
AfterAdvance ==
    {"mw_start", "mw_unlock", "v_load", "v_rlock", "v_sum", "v_runlock", "v_ret"}

\* p is in a Value() call that read the clock windowUnits or more whole time
\* units after the latest increment, and no Observe() is in progress.
IdleFor(p) ==
    /\ op[p] = "Value"
    /\ lastInc >= 0
    /\ readAt[p] - lastInc >= WindowSize
    /\ \A q \in Procs : ~ObserveInFlight(q)

\* C6: a Value() made windowUnits or more whole time units after the latest
\* increment, with no Observe() in progress, returns 0, and once its window
\* advance is done all of prevCounts and crtCount are 0.
C6_IdleIsEmpty ==
    \A p \in Procs :
        (IdleFor(p) /\ pc[p] \in AfterAdvance) =>
            /\ crtCount = 0
            /\ \A i \in 1..Len(prevCounts) : prevCounts[i] = 0
            /\ pc[p] = "v_ret" => ret[p] = 0

\* Such a Value() has returned after its own advance, by at least
\* windowUnits units, removed a count.
C6_Witness ==
    \E p \in Procs :
        /\ IdleFor(p)
        /\ pc[p] = "v_ret"
        /\ moveDistance[p] >= windowUnits
        /\ removed >= 1

\* ------------------------------------------------------------------- C7

\* The next statement of p reads windowStart or prevCounts.
ReadsGuarded(p) ==
    pc[p] \in {"rw_check", "mw_check", "mw_shift", "mw_current", "mw_start", "v_sum"}
\* The next statement of p writes windowStart or prevCounts.
WritesGuarded(p) == pc[p] \in {"mw_shift", "mw_current", "mw_start"}
HoldsShared(p) == p \in mu.readers
HoldsExclusive(p) == p \in mu.writer /\ mu.held

\* C7: windowStart and prevCounts are written only under the exclusive hold
\* and read only under a shared or the exclusive hold, and no write to them
\* overlaps another caller's read or write.
C7_LockDiscipline ==
    /\ \A p \in Procs : WritesGuarded(p) => HoldsExclusive(p)
    /\ \A p \in Procs : ReadsGuarded(p) => (HoldsShared(p) \/ HoldsExclusive(p))
    /\ \A p, q \in Procs :
           (p # q /\ WritesGuarded(p)) => ~(ReadsGuarded(q) \/ WritesGuarded(q))

\* A writer is inside moveWindow while another caller waits for a read hold.
C7_Witness ==
    \E p, q \in Procs :
        /\ p # q
        /\ pc[p] = "mw_current"
        /\ pc[q] \in {"rw_rlock", "v_rlock"}

\* ------------------------------------------------------------------- C8

\* C8: the length of prevCounts is windowUnits - 1 in every state.
C8_HistoryLength == Len(prevCounts) = windowUnits - 1

\* An advance has shifted a non-empty prevCounts.
C8_Witness ==
    \E p \in Procs :
        /\ pc[p] = "mw_current"
        /\ moveDistance[p] >= 1
        /\ Len(prevCounts) >= 1
        /\ Incs >= 1

\* ------------------------------------------------------------------- C9

\* Every interleaving under a fair scheduler: a goroutine whose next step
\* stays possible eventually takes it.
LiveInit == Constructed(1..LiveMaxWindowUnits, 1..LiveMaxUnit)

LiveNext == Tick(LiveMaxTime) \/ \E p \in 1..Callers : Step(p, LiveMaxCalls, FALSE)

LiveSpec ==
    /\ LiveInit
    /\ [][LiveNext]_vars
    /\ \A p \in Procs : WF_vars(Run(p))

\* C9: every started call eventually returns, and no caller asks for the
\* exclusive hold while it holds a shared hold.
C9_EveryCallReturns ==
    /\ \A p \in Procs : (pc[p] # "idle") ~> (pc[p] = "idle")
    /\ [](\A p \in Procs : pc[p] \in {"mw_lock", "mw_wait"} => p \notin mu.readers)

\* A writer waits for the exclusive hold while another caller holds a shared
\* hold.
C9_Witness ==
    \E p, q \in Procs :
        /\ p # q
        /\ pc[p] = "mw_wait"
        /\ q \in mu.readers

\* ------------------------------------------------------------------ C10

\* NewCounter was called with arguments outside its domain.
Misuse == windowUnits < 1 \/ unitArg <= 0

\* C10: NewCounter with windowUnits < 1 or unit <= 0 fails instead of
\* returning a counter on which Observe() and Value() can be called.
C10_MisuseRejected == Misuse => (panicked = "makeslice" /\ calls = 0)

\* ------------------------------------------------------------------ C11

\* The history that an advance by k units makes of history h and current v:
\* h moved k places to the left, v behind it, zeroes after v.
ShiftedBy(h, v, k) ==
    [i \in 1..Len(h) |-> IF i <= Len(h) - k THEN h[i + k]
                         ELSE IF i = Len(h) + 1 - k THEN v
                         ELSE 0]

\* The number of units from the last unit of the window the advance in
\* progress began with to the unit of the time p advances to.
UnitsAhead(p) == (now[p] - advFrom.e) \div Unit

\* C11: in a run without overlapping calls, an advance from history h and
\* current v to a time k units after the window's last unit has k >= 1,
\* leaves crtCount = 0 and makes prevCounts h shifted left by k with v at
\* index W-1-k (when k <= W-1) and zeroes behind it; all zeroes when k >= W.
C11_ShiftCorrectness ==
    \A p \in Procs :
        (pc[p] \in {"mw_start", "mw_unlock"} /\ advFrom.on) =>
            /\ UnitsAhead(p) >= 1
            /\ crtCount = 0
            /\ prevCounts = ShiftedBy(advFrom.h, advFrom.v, UnitsAhead(p))
            /\ UnitsAhead(p) >= windowUnits =>
                   \A i \in 1..Len(prevCounts) : prevCounts[i] = 0

\* An advance by one unit has moved a count of the history one place to the
\* left and the current count behind it.
C11_Witness ==
    \E p \in Procs :
        /\ pc[p] = "mw_start"
        /\ advFrom.on
        /\ UnitsAhead(p) = 1
        /\ Len(advFrom.h) >= 2
        /\ advFrom.h[2] >= 1
        /\ advFrom.v >= 1

\* ------------------------------------------------------------------ C12

\* Number of shifts of the window made for the time x.
ShiftsFor(x) == Cardinality({i \in DOMAIN movedT : movedT[i] = x})

\* The window was shifted for a time later than x.
ShiftedPast(x) == \E i \in DOMAIN movedT : movedT[i] > x

\* p is in moveWindow and the re-check under the exclusive hold failed.
FailedRecheck(p) == pc[p] = "mw_unlock" /\ moveDistance[p] = 0

\* p is in moveWindow and has shifted the window.
HasShifted(p) == pc[p] \in {"mw_current", "mw_start", "mw_unlock"} /\ moveDistance[p] >= 1

\* The other callers that decided, like p, to move the window to the time
\* t[p] (t[q] is set only when q enters moveWindow).
SameTimeAs(p) == {q \in Procs \ {p} : pc[q] # "idle" /\ t[q] = t[p]}

\* C12 as stated: of the callers that read the same truncated time and
\* decided under the shared hold to move the window, exactly one shifts it;
\* the others fail the re-check.
C12_ExactlyOneShifts ==
    \A p \in Procs :
        SameTimeAs(p) # {} =>
            /\ pc[p] = "mw_shift" => ShiftsFor(t[p]) = 0
            /\ HasShifted(p) => ShiftsFor(t[p]) = 1
            /\ FailedRecheck(p) => ShiftsFor(t[p]) = 1

\* C12 amended: of the callers that read the same truncated time and decided
\* under the shared hold to move the window, at most one shifts it, and
\* exactly one unless the window was meanwhile shifted for a later time; a
\* caller that fails the re-check finds the window already covering its
\* time.  The window is shifted at most once for any time.
C12_AtMostOneShifts ==
    /\ \A p \in Procs :
           /\ pc[p] = "mw_shift" => ShiftsFor(t[p]) = 0
           /\ HasShifted(p) => ShiftsFor(t[p]) = 1
           /\ FailedRecheck(p) =>
                  /\ ShiftsFor(t[p]) = 1 \/ (ShiftsFor(t[p]) = 0 /\ ShiftedPast(t[p]))
                  /\ t[p] - windowStart <= WindowSize
    /\ \A i, j \in DOMAIN movedT : i < j => movedT[i] < movedT[j]

\* Two callers decided to move the window for the same time; one has
\* shifted it and returned to its caller, the other has failed the re-check.
C12_Witness ==
    \E p, q \in Procs :
        /\ p # q
        /\ FailedRecheck(p)
        /\ ShiftsFor(t[p]) = 1
        /\ pc[q] \in {"ob_add", "v_load"}
        /\ t[q] = t[p]

\* ------------------------------------------------------------------ C13

\* p is inside refreshWindow (moveWindow included).
InRefresh(p) ==
    pc[p] \in {"rw_rlock", "rw_check", "rw_runlock", "mw_lock", "mw_wait",
               "mw_check", "mw_shift", "mw_current", "mw_start", "mw_unlock"}

\* C13: in a run without overlapping calls, a refreshWindow made at the
\* clock reading of the refreshWindow before it leaves windowStart,
\* prevCounts and crtCount as they are.
C13_IdempotentRefresh ==
    [][\A p \in Procs :
           (InRefresh(p) /\ lastRefresh = readAt[p]) =>
               /\ windowStart' = windowStart
               /\ prevCounts' = prevCounts
               /\ crtCount' = crtCount]_vars

\* A refreshWindow at the clock reading of the one before it, which moved
\* the window and counts, has passed its check under the shared hold.
C13_Witness ==
    \E p \in Procs :
        /\ pc[p] = "rw_runlock"
        /\ lastRefresh = readAt[p]
        /\ movedT # <<>>
        /\ movedT[Len(movedT)] = now[p] + Unit
        /\ crtCount + SumSeq(prevCounts) >= 1

\* ------------------------------------------------------------------ C14

\* The window ends with the time unit that contains the clock tick x, and a
\* refreshWindow that reads x finds the unit covered.
EndsOnUnitOf(x) ==
    /\ windowStart + windowUnits * unitArg = Truncate(x, unitArg) + unitArg
    /\ Truncate(x, unitArg) - windowStart < WindowSize

\* C14: windowStart is a whole multiple of unit in every state; right after
\* construction at time now, and after every advance made for time now, the
\* window end windowStart + windowUnits * unit is truncate(now, unit) + unit,
\* so that a refresh at the same time is a no-op.
C14_WindowAlignment ==
    /\ EndsOnUnitOf(clock)
    /\ [](windowStart % unitArg = 0)
    /\ [](\A p \in Procs :
             (HasShifted(p) /\ pc[p] = "mw_unlock") => EndsOnUnitOf(readAt[p]))

\* An advance made for a reading that is not on a unit boundary is done,
\* with calls overlapping.
C14_Witness ==
    \E p \in Procs :
        /\ pc[p] = "mw_unlock"
        /\ moveDistance[p] >= 1
        /\ readAt[p] % unitArg # 0
        /\ overlapped

\* ------------------------------------------------------------------ C15

\* C15: whenever moveWindow passes its re-check, moveDistance is at least 1
\* and the insertion position len(prevCounts) - moveDistance at most
\* len(prevCounts) - 1, so no index is out of range; the update of
\* windowStart strictly increases it, and no step of any interleaving
\* decreases it.
C15_MoveDistancePositive ==
    /\ [](\A p \in Procs :
             pc[p] \in {"mw_current", "mw_start"} =>
                 /\ moveDistance[p] >= 1
                 /\ Len(prevCounts) - moveDistance[p] <= Len(prevCounts) - 1)
    /\ [](panicked = "none")
    /\ [][windowStart' >= windowStart]_vars
    /\ [][\A p \in Procs :
              (pc[p] = "mw_start" /\ pc'[p] = "mw_unlock") =>
                  windowStart' > windowStart]_vars

\* A caller is at the re-check with a time older than the one the window
\* was meanwhile advanced to.
C15_Witness ==
    \E p \in Procs :
        /\ pc[p] = "mw_check"
        /\ movedT # <<>>
        /\ t[p] < windowStart + WindowSize

\* ------------------------------------------------------------------ C16

\* The time unit whose events crtCount counts: the last unit of the window,
\* which, once moveWindow has swapped crtCount and until it updates
\* windowStart, is the unit before the time t it moves the window to.
CurrentUnit ==
    IF \E q \in Procs : pc[q] = "mw_start"
    THEN t[CHOOSE q \in Procs : pc[q] = "mw_start"] - Unit
    ELSE windowStart + WindowSize - Unit

\* The step is p's increment (line 61).
Increments(p) == pc[p] = "ob_add" /\ pc'[p] = "ob_ret"

\* C16 as stated: under any interleaving the increment of an Observe() call
\* lands in the bucket of the time unit the call read from the clock in its
\* refresh step.
C16_IncrementInOwnUnit ==
    [][\A p \in Procs : Increments(p) => CurrentUnit = now[p]]_vars

\* C16 amended: the increment lands in the bucket of the unit the call read,
\* or, when another caller advanced the window between this call's refresh
\* and its increment, in the bucket of the later unit that caller advanced
\* to; never in the bucket of an earlier unit.
C16_IncrementInOwnOrLaterUnit ==
    [][\A p \in Procs :
           Increments(p) =>
               \/ CurrentUnit = now[p]
               \/ /\ CurrentUnit > now[p]
                  /\ ShiftsFor(CurrentUnit + Unit) = 1
                  /\ t[p] # CurrentUnit + Unit]_vars

\* The only increment made so far is in crtCount, which counts a later unit
\* than the one the Observe() call read.
C16_Witness ==
    \E p \in Procs :
        /\ pc[p] = "ob_ret"
        /\ Incs = 1
        /\ crtCount = 1
        /\ CurrentUnit > now[p]

\* ------------------------------------------------------------------ C17

\* The statements of moveWindow.
MovePcs ==
    {"mw_lock", "mw_wait", "mw_check", "mw_shift", "mw_current", "mw_start",
     "mw_unlock"}

\* The step is a step of p.
StepOf(p) == pc'[p] # pc[p]

\* C17: a call that finds the current time unit covered by the window does
\* not enter moveWindow; outside moveWindow no step of Observe() or Value()
\* changes prevCounts or windowStart or takes the exclusive hold, Observe()
\* changes crtCount by its increment of exactly 1 only and Value() not at
\* all.  prevCounts and windowStart change, and crtCount is reset, only in
\* the shift, swap and update steps of moveWindow.
C17_NoAdvanceFrame ==
    /\ [][\A p \in Procs :
              (StepOf(p) /\ pc[p] = "rw_runlock"
                  /\ now[p] - windowStart < WindowSize) =>
                  pc'[p] \notin MovePcs]_vars
    /\ [][\A p \in Procs :
              (StepOf(p) /\ pc[p] \notin MovePcs) =>
                  /\ prevCounts' = prevCounts
                  /\ windowStart' = windowStart
                  /\ mu'.writer = mu.writer
                  /\ mu'.held = mu.held
                  /\ crtCount' = IF pc[p] = "ob_add" THEN crtCount + 1
                                 ELSE crtCount]_vars
    /\ [][(prevCounts' # prevCounts \/ windowStart' # windowStart
              \/ crtCount' < crtCount) =>
              \E p \in Procs :
                  /\ StepOf(p)
                  /\ pc[p] \in {"mw_shift", "mw_current", "mw_start"}
                  /\ HoldsExclusive(p)]_vars

\* An Observe() call that did not enter moveWindow has made its increment
\* while calls overlapped and counts were in the buckets.
C17_Witness ==
    \E p \in Procs :
        /\ pc[p] = "ob_ret"
        /\ t[p] = 0
        /\ overlapped
        /\ crtCount >= 2
        /\ SumSeq(prevCounts) >= 1

\* ------------------------------------------------------------------ C18

RECURSIVE ExactSum(_, _, _)
ExactSum(acc, s, i) ==
    IF i < Len(s)
    THEN LET lo == acc.lo + s[i + 1].lo
         IN ExactSum(U32(acc.hi + s[i + 1].hi + (lo \div 65536), lo % 65536),
                     s, i + 1)
    ELSE acc

\* C19: every bucket holding a value its 32 bits represent, Value() returns
\* the exact sum crtCount + sum(prevCounts), with no wrap-around, and never
\* a negative number.
C19_ValueIsExactSum ==
    (fnRun.fn = "Value" /\ fnRun.done) =>
        LET exact == ExactSum(fnRun.crt, fnRun.prev, 0)
        IN /\ ~fnRun.outV.neg
           /\ fnRun.outV.hi = exact.hi
           /\ fnRun.outV.lo = exact.lo

\* ------------------------------------------------------------------ C20

\* C20: for a slice s of n elements and a shift p, leftShiftInPlace leaves s
\* as it was when p <= 0; makes every element 0 when p >= n (nothing is
\* written when n = 0); and for 0 < p < n puts the old s[i+p] at index i for
\* every i < n - p and 0 at the last p indices.  The length of s does not
\* change and no index outside 0..n-1 is read or written.
C20_LeftShiftPrimitive ==
    (fnRun.fn = "leftShiftInPlace" /\ fnRun.done) =>
        LET s == fnRun.s
            p == fnRun.p
            n == Len(fnRun.s)
            out == fnRun.outS
        IN /\ Len(out) = n
           /\ fnRun.touched \subseteq 0..(n - 1)
           /\ p <= 0 => out = s
           /\ p >= n => /\ \A i \in 0..(n - 1) : out[i + 1] = 0
                        /\ n = 0 => fnRun.touched = {}
           /\ (0 < p /\ p < n) =>
                  /\ \A i \in 0..(n - p - 1) : out[i + 1] = s[i + p + 1]
                  /\ \A i \in (n - p)..(n - 1) : out[i + 1] = 0

\* A slice has been shifted by less than its length, and a non-zero element
\* has moved to the front over a different one.
C20_Witness ==
    /\ fnRun.fn = "leftShiftInPlace"
    /\ fnRun.done
    /\ 0 < fnRun.p
    /\ fnRun.p < Len(fnRun.s)
    /\ fnRun.s[fnRun.p + 1] # 0
    /\ fnRun.s[1] # fnRun.s[fnRun.p + 1]
    /\ fnRun.outS[1] = fnRun.s[fnRun.p + 1]

====
